---- MODULE Spec2Model ----
(***************************************************************************)
(* Model of the request admission and caching layer:                       *)
(*   - RequestQueue (backend/src/queue/RequestQueue.ts): in-flight         *)
(*     deduplication and a concurrency-capped task runner;                 *)
(*   - LRUCache (backend/src/cache/LRUCache.ts): bounded LRU with TTL.     *)
(* JavaScript runs every handler to completion on one thread; promise      *)
(* reactions run later, in FIFO order, from the microtask queue.           *)
(***************************************************************************)
EXTENDS Integers, Sequences, FiniteSets, TLC

\* ------------------------------------------------------------------ bounds
\* execute() calls in a behaviour, and in a behaviour of a queue that runs
\* one fetch at a time and is never cleared
MaxCalls == 3
MaxExecCalls == 4
MaxClears == 1
\* keys submitted at once on top of the concurrency limit
BurstExtra == 5

\* the concurrency limits a queue is constructed with
Limits == {0, 1, 2}
\* the keys the callers share
SharedKeys == {1, 2}
\* the capacities and the ttl values (in ticks) a cache is constructed with
Capacities == {0, 1, 2}
Ttls == {0, 1}

MaxOf(a, b) == IF a > b THEN a ELSE b
NumCalls == MaxOf(MaxOf(MaxCalls, MaxExecCalls), BurstExtra + 1)
Keys == SharedKeys \cup (1..(BurstExtra + 1))

\* LRUCache: time (in ticks), get() calls, recency-changing accesses (set,
\* successful get) and recordResponseTime() calls in a behaviour
MaxTime == 2
MaxGets == 1
MaxCountedGets == 2
MaxTouches == 4
MaxSamples == 2
\* TokenBucketRateLimiter: consume() calls and moves of the clock in a
\* behaviour
MaxConsumes == 3
MaxAdvances == 2
\* consume() calls of one identity against the limiter of the application
MaxLimiterCalls == 17
\* the application: GET /users/:id and DELETE /cache requests in a behaviour
MaxRequests == 2
\* the seating map: how many seats there are beyond the most one may select
ExtraSeats == 2

\* ------------------------------------------------------- program constants
\* new RequestQueue<unknown>(10)
UserQueueConcurrency == 10
\* new LRUCache<unknown>(100, 60)
UserCacheMaxSize == 100
UserCacheTtlSeconds == 60
MsPerSecond == 1000
\* const MAX_SEATS = 8
MAX_SEATS == 8
\* new TokenBucketRateLimiter({ maxRequestsPerMinute: 10, burstCapacity: 5,
\* burstWindowSeconds: 10 })
LimiterMaxRequestsPerMinute == 10
LimiterBurstCapacity == 5
LimiterBurstWindowSeconds == 10
\* Math.floor(timeSinceRefill / 6000); resetIn: 6
RefillMs == 6000
RefillSeconds == 6
\* const maxAge = 5 * 60 * 1000
MaxAgeMs == 5 * 60 * 1000
\* if (this.responseTimes.length > 1000)
ResponseTimesCap == 1000

VARIABLES
  concurrency,       \* RequestQueue.concurrency
  inFlight,          \* RequestQueue.inFlight: key -> originating call of the record, 0 = no entry
  pendingResolvers,  \* InFlightRequest.pendingResolvers of the record created by each call
  queue,             \* RequestQueue.queue: tasks (named by their originating call) not yet started
  processing,        \* RequestQueue.processing
  activeCount,       \* RequestQueue.activeCount
  callKey,           \* the execute() calls made so far: callKey[c] is the key of call c
  task,              \* per originating call: the state of its queued task
  fetchCalls,        \* how many times the fetch closure of call c has been invoked
  promise,           \* the promise each execute() call returned
  handler,           \* the task body that is between `await fetchFn()` and its finally block
  microtasks,        \* the promise job queue
  fetched,           \* what the fetch closure of call c returned or threw
  delivered,         \* the continuations of callers that have run, in order, with what they saw
  clears,            \* number of clear() calls made
  cache,             \* LRUCache.cache: the Map's entries in insertion order
  maxSize,           \* LRUCache.maxSize
  ttl,               \* LRUCache.ttl
  hits,              \* LRUCache.hits
  misses,            \* LRUCache.misses
  now,               \* Date.now()
  lastUse,           \* per key, the number of the last set or successful get of it
  gets,              \* get() calls made since construction or the last clear()
  responseTimes,     \* LRUCache.responseTimes
  samples,           \* recordResponseTime() calls made so far
  buckets,           \* TokenBucketRateLimiter.buckets: key -> RateLimitEntry, for the keys it holds
  config,            \* TokenBucketRateLimiter.config
  clock,             \* Date.now() as the rate limiter reads it, in milliseconds
  result,            \* what the last consume() call returned
  consumes,          \* consume() calls made so far
  advances,          \* how many times the clock has moved
  history,           \* the consume() calls made so far, in order, with what they returned
  reqs,              \* the HTTP requests received so far, in order, with how far each has got
  rechecked,         \* per execute() call of a request: what the cache re-check of its fetch closure returned
  selectedSeatIds,   \* useSeatSelection: the seats selected
  focusedSeatId,     \* useSeatSelection: the seat focused, or NoSeat
  storage            \* localStorage: what is stored under "seating-selection"

queueVars == <<concurrency, inFlight, pendingResolvers, queue, processing,
               activeCount, callKey, task, fetchCalls, promise, handler,
               microtasks, fetched, delivered, clears>>

cacheVars == <<cache, maxSize, ttl, hits, misses, now, lastUse, gets,
               responseTimes, samples>>

rateVars == <<buckets, config, clock, result, consumes, advances, history>>

appVars == <<reqs, rechecked>>

seatVars == <<selectedSeatIds, focusedSeatId, storage>>

vars == <<queueVars, cacheVars, rateVars, appVars, seatVars>>

Calls == 1..NumCalls

\* --------------------------------------------------------------- values
NoValue == [kind |-> "none", msg |-> ""]
\* what a fetch can resolve with
Results == {[kind |-> "data", msg |-> "u1"]}
\* what a fetch can throw: an Error object, or any other value (here a string)
Thrown == {[kind |-> "Error", msg |-> "boom"], [kind |-> "string", msg |-> "oops"]}

Pending == [state |-> "pending", val |-> NoValue]
Fulfilled(v) == [state |-> "fulfilled", val |-> v]
Rejected(e) == [state |-> "rejected", val |-> e]

\* what `await fetchFn()` can produce
FetchOutcomes == {Fulfilled(v) : v \in Results} \cup {Rejected(e) : e \in Thrown}

NoHandler == [rec |-> 0, out |-> Pending, i |-> 0]

\* error instanceof Error ? error : new Error(String(error))
ToErrorVerbatim(e) == e

ToError(e) == IF e.kind = "Error" THEN e ELSE [kind |-> "Error", msg |-> e.msg]

\* the outcome the task body broadcasts for what the fetch produced
Broadcast(o) == IF o.state = "rejected" THEN Rejected(ToError(o.val)) ELSE o

\* ------------------------------------------------------------ processQueue
SlotFreeOffByOne(ac) == ac <= concurrency

\* this.activeCount < this.concurrency
SlotFree(ac) == ac < concurrency

\* the while loop of process(): shift tasks while a slot is free
RECURSIVE ProcessLoop(_, _, _)
ProcessLoop(q, ac, started) ==
  IF Len(q) > 0 /\ SlotFree(ac)
    THEN ProcessLoop(Tail(q), ac + 1, Append(started, Head(q)))
    ELSE [queue |-> q, activeCount |-> ac, started |-> started]

InSeq(x, s) == \E i \in 1..Len(s) : s[i] = x

\* process(): runs synchronously up to each task's `await fetchFn()`
Process(q, ac) ==
  LET r == ProcessLoop(q, ac, <<>>) IN
    /\ queue' = r.queue
    /\ activeCount' = r.activeCount
    /\ task' = [c \in Calls |->
                  IF InSeq(c, r.started) THEN "running"
                  ELSE IF InSeq(c, q) THEN "queued" ELSE task[c]]
    /\ fetchCalls' = [c \in Calls |->
                  IF InSeq(c, r.started) THEN fetchCalls[c] + 1 ELSE fetchCalls[c]]
    /\ processing' = FALSE

\* processQueue(): guarded by the processing flag
ProcessQueue(q, ac) ==
  IF processing
    THEN /\ queue' = q
         /\ activeCount' = ac
         /\ task' = [c \in Calls |-> IF InSeq(c, q) THEN "queued" ELSE task[c]]
         /\ UNCHANGED <<fetchCalls, processing>>
    ELSE Process(q, ac)

\* ------------------------------------------------------------------ Init
\* new RequestQueue(limit)
QueueNew(limit) ==
  /\ concurrency = limit
  /\ inFlight = [k \in Keys |-> 0]
  /\ pendingResolvers = [c \in Calls |-> <<>>]
  /\ queue = <<>>
  /\ processing = FALSE
  /\ activeCount = 0
  /\ callKey = <<>>
  /\ task = [c \in Calls |-> "none"]
  /\ fetchCalls = [c \in Calls |-> 0]
  /\ promise = [c \in Calls |-> Pending]
  /\ handler = NoHandler
  /\ microtasks = <<>>
  /\ fetched = [c \in Calls |-> Pending]
  /\ delivered = <<>>
  /\ clears = 0

Idle == handler.rec = 0

\* the queue runs at most one fetch at a time
Serial == concurrency <= 1

\* the calls made so far are all for different keys and no fetch has settled
InBurst ==
  /\ clears = 0
  /\ \A c \in 1..Len(callKey) : callKey[c] = c /\ task[c] \in {"queued", "running"}

\* the execute() calls the environment makes, at most n of them: any key, the
\* unused ones taken in order
Submits(k, n) ==
  /\ Len(callKey) < n
  /\ k \in SharedKeys
  /\ \A j \in 1..(k - 1) : InSeq(j, callKey)

\* one more fresh key of a burst of concurrency + BurstExtra keys
BurstSubmits(k) ==
  /\ InBurst
  /\ Serial
  /\ Len(callKey) < concurrency + BurstExtra
  /\ k = Len(callKey) + 1

\* --------------------------------------------------------------- execute
HasInFlightNever(k) == FALSE

\* const inFlight = this.inFlight.get(key); if (inFlight)
HasInFlight(k) == inFlight[k] # 0

AttachFirst(s, c) == <<c>> \o s

\* inFlight.pendingResolvers.push({ resolve, reject })
Attach(s, c) == Append(s, c)

\* execute(key, fetchFn), the call numbered Len(callKey) + 1: what it does
\* to the queue
ExecuteBody(k) ==
  /\ Idle
  /\ LET c == Len(callKey) + 1 IN
       /\ callKey' = Append(callKey, k)
       /\ IF HasInFlight(k)
            THEN /\ pendingResolvers' =
                      [pendingResolvers EXCEPT ![inFlight[k]] = Attach(@, c)]
                 /\ UNCHANGED <<inFlight, queue, processing, activeCount,
                                task, fetchCalls>>
            ELSE /\ inFlight' = [inFlight EXCEPT ![k] = c]
                 /\ ProcessQueue(Append(queue, c), activeCount)
                 /\ UNCHANGED pendingResolvers
  /\ UNCHANGED <<concurrency, promise, handler, microtasks, fetched, delivered,
                 clears>>

\* execute(key, fetchFn) called by a caller that touches nothing else
Execute(k) ==
  /\ UNCHANGED <<cacheVars, rateVars, appVars, seatVars>>
  /\ ExecuteBody(k)

\* a caller calls execute(key, fetchFn)
Submit(k) ==
  /\ Submits(k, MaxCalls) \/ BurstSubmits(k)
  /\ Execute(k)

\* a caller calls execute(key, fetchFn) with the next unused key
SubmitNext(k) ==
  /\ Len(callKey) < MaxExecCalls
  /\ k = Len(callKey) + 1
  /\ Execute(k)

\* the same where clear() is never called
SubmitNoClear(k) ==
  /\ Submits(k, MaxCalls) \/ (Serial /\ Submits(k, MaxExecCalls))
  /\ Execute(k)

\* ------------------------------------------------ the queued task's body
\* `await fetchFn()` returns or throws; resolve(result) / reject(err)
FetchSettlesBody(r, o) ==
  /\ Idle
  /\ task[r] = "running"
  /\ task' = [task EXCEPT ![r] = "settled"]
  /\ fetched' = [fetched EXCEPT ![r] = o]
  /\ promise' = [promise EXCEPT ![r] = Broadcast(o)]
  /\ microtasks' = Append(microtasks, [job |-> "reaction", call |-> r])
  /\ handler' = [rec |-> r, out |-> Broadcast(o), i |-> 1]
  /\ UNCHANGED <<concurrency, inFlight, pendingResolvers, queue, processing,
                 activeCount, callKey, fetchCalls, delivered, clears>>

FetchSettles(r, o) ==
  /\ UNCHANGED <<cacheVars, rateVars, appVars, seatVars>>
  /\ FetchSettlesBody(r, o)

MoreWaitersNever(h) == FALSE

\* the condition of `for (const pending of request.pendingResolvers)`
MoreWaiters(h) == h.i <= Len(pendingResolvers[h.rec])

\* one iteration of that loop: pending.resolve(result) / pending.reject(err)
NotifyWaiter ==
  /\ UNCHANGED <<cacheVars, rateVars, appVars, seatVars>>
  /\ ~Idle
  /\ MoreWaiters(handler)
  /\ LET w == pendingResolvers[handler.rec][handler.i] IN
       /\ promise' = [promise EXCEPT ![w] = handler.out]
       /\ microtasks' = Append(microtasks, [job |-> "reaction", call |-> w])
  /\ handler' = [handler EXCEPT !.i = @ + 1]
  /\ UNCHANGED <<concurrency, inFlight, pendingResolvers, queue, processing,
                 activeCount, callKey, task, fetchCalls, fetched, delivered,
                 clears>>

DeleteKeyNoop(m, k) == m

\* this.inFlight.delete(key)
DeleteKey(m, k) == [m EXCEPT ![k] = 0]

\* the finally block; the task's own promise settles and its .finally
\* callback (processQueue) is queued
Finally ==
  /\ UNCHANGED <<cacheVars, rateVars, appVars, seatVars>>
  /\ ~Idle
  /\ ~MoreWaiters(handler)
  /\ inFlight' = DeleteKey(inFlight, callKey[handler.rec])
  /\ microtasks' = Append(microtasks, [job |-> "finally", call |-> handler.rec])
  /\ handler' = NoHandler
  /\ UNCHANGED <<concurrency, pendingResolvers, queue, processing, activeCount,
                 callKey, task, fetchCalls, promise, fetched, delivered, clears>>

\* ------------------------------------------------------------ microtasks
\* the promise returned by the async execute() adopts the settled promise
RunReaction ==
  /\ UNCHANGED <<cacheVars, rateVars, appVars, seatVars>>
  /\ Idle
  /\ Len(microtasks) > 0
  /\ Head(microtasks).job = "reaction"
  /\ microtasks' = Append(Tail(microtasks),
                          [job |-> "continuation", call |-> Head(microtasks).call])
  /\ UNCHANGED <<concurrency, inFlight, pendingResolvers, queue, processing,
                 activeCount, callKey, task, fetchCalls, promise, handler,
                 fetched, delivered, clears>>

RunFinallyBodyNoRestart ==
  /\ Idle
  /\ Len(microtasks) > 0
  /\ Head(microtasks).job = "finally"
  /\ microtasks' = Tail(microtasks)
  /\ activeCount' = activeCount - 1
  /\ UNCHANGED <<queue, task, fetchCalls, processing>>
  /\ UNCHANGED <<concurrency, inFlight, pendingResolvers, callKey, promise,
                 handler, fetched, delivered, clears>>

\* task.execute().finally(() => { this.activeCount--; if (queue.length > 0) process(); })
RunFinallyBody ==
  /\ Idle
  /\ Len(microtasks) > 0
  /\ Head(microtasks).job = "finally"
  /\ microtasks' = Tail(microtasks)
  /\ IF Len(queue) > 0
       THEN Process(queue, activeCount - 1)
       ELSE /\ activeCount' = activeCount - 1
            /\ UNCHANGED <<queue, task, fetchCalls, processing>>
  /\ UNCHANGED <<concurrency, inFlight, pendingResolvers, callKey, promise,
                 handler, fetched, delivered, clears>>

RunFinally ==
  /\ UNCHANGED <<cacheVars, rateVars, appVars, seatVars>>
  /\ RunFinallyBody

\* the caller's code after `await queue.execute(...)` runs
RunContinuationBody ==
  /\ Idle
  /\ Len(microtasks) > 0
  /\ Head(microtasks).job = "continuation"
  /\ microtasks' = Tail(microtasks)
  /\ delivered' = Append(delivered, [call |-> Head(microtasks).call,
                                     got |-> promise[Head(microtasks).call]])
  /\ UNCHANGED <<concurrency, inFlight, pendingResolvers, queue, processing,
                 activeCount, callKey, task, fetchCalls, promise, handler,
                 fetched, clears>>

\* the same for a caller that does nothing with what it gets
RunContinuation ==
  /\ UNCHANGED <<cacheVars, rateVars, appVars, seatVars>>
  /\ RunContinuationBody

\* the .finally callback of the task of the call c has run
FinallyRan(c) ==
  /\ task[c] = "settled"
  /\ handler.rec # c
  /\ \A i \in 1..Len(microtasks) :
       ~(microtasks[i].job = "finally" /\ microtasks[i].call = c)

\* task.execute(): the promise of the async task body; it is rejected by
\* `throw err` and fulfilled by `return result`, once the finally block is done
TaskPromise(c) ==
  IF task[c] = "settled" /\ handler.rec # c THEN Broadcast(fetched[c])
  ELSE Pending

\* task.execute().finally(...): the promise that .finally returns; it settles
\* as the task's promise did once the callback has run
FinallyPromise(c) == IF FinallyRan(c) THEN TaskPromise(c) ELSE Pending

\* the reactions attached to these two promises: the .finally callback on the
\* first, nothing on the second
TaskPromiseReactions(c) == {"finally"}
FinallyPromiseReactions(c) == {}

\* ----------------------------------------------------------------- clear
Clear ==
  /\ UNCHANGED <<cacheVars, rateVars, appVars, seatVars>>
  /\ Idle
  /\ clears < MaxClears
  /\ clears' = clears + 1
  /\ queue' = <<>>
  /\ inFlight' = [k \in Keys |-> 0]
  /\ task' = [c \in Calls |-> IF task[c] = "queued" THEN "dropped" ELSE task[c]]
  /\ UNCHANGED <<concurrency, pendingResolvers, processing, activeCount,
                 callKey, fetchCalls, promise, handler, microtasks, fetched,
                 delivered>>

\* ------------------------------------------------------------- getStatus
\* Array.from(this.inFlight.keys()): the Map once its keys have been copied
KeysCopied(m) == m

\* what getStatus() returns
Status ==
  [queueLength |-> Len(queue),
   activeRequests |-> activeCount,
   inFlightKeys |-> {k \in Keys : inFlight[k] # 0}]

\* getStatus()
GetStatus ==
  /\ UNCHANGED <<cacheVars, rateVars, appVars, seatVars>>
  /\ Idle
  /\ inFlight' = KeysCopied(inFlight)
  /\ UNCHANGED <<concurrency, pendingResolvers, queue, processing, activeCount,
                 callKey, task, fetchCalls, promise, handler, microtasks,
                 fetched, delivered, clears>>

\* a queue of limit 1 after execute(1) and execute(2), no fetch settled yet:
\* the first task runs and the second waits
QueueBusy ==
  /\ concurrency = 1
  /\ inFlight = [k \in Keys |-> IF k \in {1, 2} THEN k ELSE 0]
  /\ pendingResolvers = [c \in Calls |-> <<>>]
  /\ queue = <<2>>
  /\ processing = FALSE
  /\ activeCount = 1
  /\ callKey = <<1, 2>>
  /\ task = [c \in Calls |-> IF c = 1 THEN "running"
                              ELSE IF c = 2 THEN "queued" ELSE "none"]
  /\ fetchCalls = [c \in Calls |-> IF c = 1 THEN 1 ELSE 0]
  /\ promise = [c \in Calls |-> Pending]
  /\ handler = NoHandler
  /\ microtasks = <<>>
  /\ fetched = [c \in Calls |-> Pending]
  /\ delivered = <<>>
  /\ clears = 0

\* ============================================================== LRUCache
CacheKeys == {"a", "b", "c"}
CacheValues == {"v1", "v2"}
\* the latencies handed to recordResponseTime
SampleTimes == {3, 4}
\* what get() returns for a key that is absent or expired
Undefined == "undefined"

KeysOf(m) == [i \in 1..Len(m) |-> m[i].key]
KeySet(m) == {m[i].key : i \in 1..Len(m)}

\* Map.get(key): the entry stored under key (only used when present)
Lookup(m, k) == m[CHOOSE i \in 1..Len(m) : m[i].key = k]

\* Map.delete(key)
RECURSIVE MapDelete(_, _)
MapDelete(m, k) ==
  IF m = <<>> THEN <<>>
  ELSE IF Head(m).key = k THEN Tail(m)
  ELSE <<Head(m)>> \o MapDelete(Tail(m), k)

\* Map.set(key, entry) for a key that is not in the map: appended last
MapSet(m, e) == Append(m, e)

IsExpiredAtTtl(e) == now - e.timestamp >= ttl

\* Date.now() - entry.timestamp > this.ttl
IsExpired(e) == now - e.timestamp > ttl

\* this.cache.size >= this.maxSize
AtCapacity(m) == Len(m) >= maxSize

EvictLast(m) == IF m = <<>> THEN m ELSE SubSeq(m, 1, Len(m) - 1)

\* const firstKey = this.cache.keys().next().value; this.cache.delete(firstKey)
EvictFirst(m) == IF m = <<>> THEN m ELSE MapDelete(m, Head(m).key)

\* the number of sets and successful gets made so far, read off the record
\* lu of the last use of each key
TouchesIn(lu) == CHOOSE n \in 0..MaxTouches :
                   /\ \A k \in CacheKeys : lu[k] <= n
                   /\ n = 0 \/ \E k \in CacheKeys : lu[k] = n

Touches == TouchesIn(lastUse)

\* new LRUCache(size, ttlSeconds), with this.ttl already in clock units
CacheNew(size, t) ==
  /\ cache = <<>>
  /\ maxSize = size
  /\ ttl = t
  /\ hits = 0
  /\ misses = 0
  /\ now = 0
  /\ lastUse = [k \in CacheKeys |-> 0]
  /\ gets = 0
  /\ responseTimes = <<>>
  /\ samples = 0

AccessedAndRenewed(e) ==
  [e EXCEPT !.accessCount = @ + 1, !.timestamp = now]

\* entry.accessCount++
Accessed(e) == [e EXCEPT !.accessCount = @ + 1]

\* what get(key) returns when it is called on the Map m
GetReturns(m, k) ==
  IF k \notin KeySet(m) THEN Undefined
  ELSE IF IsExpired(Lookup(m, k)) THEN Undefined
  ELSE Lookup(m, k).data

HasReturnsStored(m, k) == k \in KeySet(m)

\* what has(key) returns when it is called on the Map m
HasReturns(m, k) ==
  IF k \notin KeySet(m) THEN FALSE
  ELSE IF IsExpired(Lookup(m, k)) THEN FALSE
  ELSE TRUE

\* what get(key) reads and writes
CacheState ==
  [cache |-> cache, hits |-> hits, misses |-> misses, lastUse |-> lastUse,
   gets |-> gets]

\* that state once the body of get(key) has run on the state cs
GotOn(cs, k) ==
  IF k \notin KeySet(cs.cache)
    THEN [cs EXCEPT !.misses = @ + 1, !.gets = @ + 1]
  ELSE IF IsExpired(Lookup(cs.cache, k))
    THEN [cs EXCEPT !.cache = MapDelete(@, k),
                    !.misses = @ + 1,
                    !.gets = @ + 1]
  ELSE [cs EXCEPT !.cache = MapSet(MapDelete(@, k),
                                   Accessed(Lookup(cs.cache, k))),
                  !.hits = @ + 1,
                  !.lastUse = [@ EXCEPT ![k] = TouchesIn(cs.lastUse) + 1],
                  !.gets = @ + 1]

\* get(key)
GetUpTo(k, n) ==
  /\ UNCHANGED <<queueVars, rateVars, appVars, seatVars>>
  /\ hits + misses < n
  /\ GetReturns(cache, k) # Undefined => Touches < MaxTouches
  /\ cache' = GotOn(CacheState, k).cache
  /\ hits' = GotOn(CacheState, k).hits
  /\ misses' = GotOn(CacheState, k).misses
  /\ lastUse' = GotOn(CacheState, k).lastUse
  /\ gets' = GotOn(CacheState, k).gets
  /\ UNCHANGED <<maxSize, ttl, now, responseTimes, samples>>

Get(k) == GetUpTo(k, MaxGets)

SetEntriesEvictingFirst(m, k, v) ==
  LET m1 == IF AtCapacity(m) THEN EvictFirst(m) ELSE m
      m2 == IF k \in KeySet(m1) THEN MapDelete(m1, k) ELSE m1
  IN MapSet(m2, [key |-> k, data |-> v, timestamp |-> now, accessCount |-> 1])

\* the Map after the body of set(key, value) has run on the Map m
SetEntries(m, k, v) ==
  LET m1 == IF k \in KeySet(m) THEN MapDelete(m, k) ELSE m
      m2 == IF AtCapacity(m1) THEN EvictFirst(m1) ELSE m1
  IN MapSet(m2, [key |-> k, data |-> v, timestamp |-> now, accessCount |-> 1])

\* set(key, value)
Set(k, v) ==
  /\ UNCHANGED <<queueVars, rateVars, appVars, seatVars>>
  /\ Touches < MaxTouches
  /\ cache' = SetEntries(cache, k, v)
  /\ lastUse' = [lastUse EXCEPT ![k] = Touches + 1]
  /\ UNCHANGED <<maxSize, ttl, hits, misses, now, gets, responseTimes, samples>>

\* has(key)
Has(k) ==
  /\ UNCHANGED <<queueVars, rateVars, appVars, seatVars>>
  /\ IF k \in KeySet(cache) /\ IsExpired(Lookup(cache, k))
       THEN cache' = MapDelete(cache, k)
       ELSE UNCHANGED cache
  /\ UNCHANGED <<maxSize, ttl, hits, misses, now, lastUse, gets,
                 responseTimes, samples>>

\* delete(key)
Delete(k) ==
  /\ UNCHANGED <<queueVars, rateVars, appVars, seatVars>>
  /\ cache' = MapDelete(cache, k)
  /\ UNCHANGED <<maxSize, ttl, hits, misses, now, lastUse, gets,
                 responseTimes, samples>>

\* the fields of the cache that its operations write
Fields ==
  [cache |-> cache, hits |-> hits, misses |-> misses,
   responseTimes |-> responseTimes]

ClearedOfOldest(f) ==
  [cache |-> IF f.cache = <<>> THEN <<>> ELSE Tail(f.cache),
   hits |-> 0, misses |-> 0, responseTimes |-> <<>>]

\* the fields once the body of clear() has run on the fields f
Cleared(f) ==
  [cache |-> <<>>, hits |-> 0, misses |-> 0, responseTimes |-> <<>>]

\* clear()
CacheClear ==
  /\ UNCHANGED <<queueVars, rateVars, appVars, seatVars>>
  /\ cache' = Cleared(Fields).cache
  /\ hits' = Cleared(Fields).hits
  /\ misses' = Cleared(Fields).misses
  /\ responseTimes' = Cleared(Fields).responseTimes
  /\ gets' = 0
  /\ UNCHANGED <<maxSize, ttl, now, lastUse, samples>>

\* this.responseTimes.push(ms); if (length > 1000) this.responseTimes.shift()
Pushed(rt, ms) ==
  LET pushed == Append(rt, ms) IN
    IF Len(pushed) > ResponseTimesCap THEN Tail(pushed) ELSE pushed

\* recordResponseTime(ms)
RecordResponseTime(ms) ==
  /\ UNCHANGED <<queueVars, rateVars, appVars, seatVars>>
  /\ samples < MaxSamples
  /\ samples' = samples + 1
  /\ responseTimes' = Pushed(responseTimes, ms)
  /\ UNCHANGED <<cache, maxSize, ttl, hits, misses, now, lastUse, gets>>

RECURSIVE Sum(_)
Sum(rt) == IF rt = <<>> THEN 0 ELSE Head(rt) + Sum(Tail(rt))

\* Math.round(avgResponseTime * 100), avgResponseTime being the mean of the
\* log or 0 for an empty log; Math.round rounds halves up
AvgTimes100(rt) ==
  IF Len(rt) > 0 THEN (2 * 100 * Sum(rt) + Len(rt)) \div (2 * Len(rt)) ELSE 0

StatsOfHits ==
  [hits |-> hits,
   misses |-> misses,
   size |-> Len(cache),
   maxSize |-> maxSize,
   ttl |-> [num |-> ttl, den |-> MsPerSecond],
   avgResponseTimeTimes100 |-> AvgTimes100(responseTimes),
   totalRequests |-> hits]

\* what getStats() returns; avgResponseTime is kept in hundredths and ttl as
\* the fraction this.ttl / 1000
Stats ==
  [hits |-> hits,
   misses |-> misses,
   size |-> Len(cache),
   maxSize |-> maxSize,
   ttl |-> [num |-> ttl, den |-> MsPerSecond],
   avgResponseTimeTimes100 |-> AvgTimes100(responseTimes),
   totalRequests |-> hits + misses]

ReducedEmptied(rt) == <<>>

\* this.responseTimes.reduce((a, b) => a + b, 0): the log once it has been read
Reduced(rt) == rt

\* getStats()
GetStats ==
  /\ UNCHANGED <<queueVars, rateVars, appVars, seatVars>>
  /\ responseTimes' = Reduced(responseTimes)
  /\ UNCHANGED <<cache, maxSize, ttl, hits, misses, now, lastUse, gets, samples>>

\* cleanupExpiredEntries(), run by the interval timer
RECURSIVE DropExpired(_)
DropExpired(m) ==
  IF m = <<>> THEN <<>>
  ELSE IF IsExpired(Head(m)) THEN DropExpired(Tail(m))
  ELSE <<Head(m)>> \o DropExpired(Tail(m))

Sweep ==
  /\ UNCHANGED <<queueVars, rateVars, appVars, seatVars>>
  /\ cache' = DropExpired(cache)
  /\ UNCHANGED <<maxSize, ttl, hits, misses, now, lastUse, gets,
                 responseTimes, samples>>

\* time passes
Tick ==
  /\ UNCHANGED <<queueVars, rateVars, appVars, seatVars>>
  /\ now < MaxTime
  /\ now' = now + 1
  /\ UNCHANGED <<cache, maxSize, ttl, hits, misses, lastUse, gets,
                 responseTimes, samples>>

\* ================================================ TokenBucketRateLimiter
\* the identities that call, the configurations tried and the amounts of
\* time, in milliseconds, that pass between two calls
RateKeys == {"ip1", "ip2"}
RateCapacities == {0, 1, 2}
BurstCapacities == {0, 1, 2}
BurstWindows == {0, 10}
Advances == {1000, 5000, 6000, MaxAgeMs + 1}

MinOf(a, b) == IF a < b THEN a ELSE b

\* Math.ceil(a / b) for b > 0
CeilDiv(a, b) == -((-a) \div b)

NoBuckets == [k \in {} |-> 0]
NoResult == [allowed |-> FALSE, remaining |-> 0, burstRemaining |-> 0,
             resetIn |-> 0]

\* new TokenBucketRateLimiter({maxRequestsPerMinute, burstCapacity,
\* burstWindowSeconds})
RateNew(max, burst, window) ==
  /\ buckets = NoBuckets
  /\ config = [maxRequestsPerMinute |-> max, burstCapacity |-> burst,
               burstWindowSeconds |-> window]
  /\ clock = 0
  /\ result = NoResult
  /\ consumes = 0
  /\ advances = 0
  /\ history = <<>>

\* this.buckets.set(key, entry) and this.buckets.delete(key)
BucketsSet(m, k, e) ==
  [x \in DOMAIN m \cup {k} |-> IF x = k THEN e ELSE m[x]]
BucketsKeep(m, ks) == [x \in ks |-> m[x]]

EntryOfNoBurst(k) ==
  IF k \in DOMAIN buckets THEN buckets[k]
  ELSE [tokens |-> config.maxRequestsPerMinute,
        burstTokens |-> 0,
        lastRefill |-> clock,
        lastBurstRefill |-> clock]

\* the entry consume() works on: the stored one, or a full one made now
EntryOf(k) ==
  IF k \in DOMAIN buckets THEN buckets[k]
  ELSE [tokens |-> config.maxRequestsPerMinute,
        burstTokens |-> config.burstCapacity,
        lastRefill |-> clock,
        lastBurstRefill |-> clock]

\* now - entry.lastRefill and now - entry.lastBurstRefill
TimeSinceRefill(e) == clock - e.lastRefill
BurstTimeSinceRefill(e) == clock - e.lastBurstRefill

TokensToAddLate(e) == TimeSinceRefill(e) \div (RefillMs + MsPerSecond)

TokensToAddRoundedUp(e) == CeilDiv(TimeSinceRefill(e), RefillMs)

\* Math.floor(timeSinceRefill / 6000)
TokensToAdd(e) == TimeSinceRefill(e) \div RefillMs

RefillMainUncapped(e) ==
  IF TokensToAdd(e) > 0
    THEN [e EXCEPT !.tokens = @ + TokensToAdd(e), !.lastRefill = clock]
    ELSE e

RefillMainStamped(e) ==
  [e EXCEPT !.tokens = MinOf(config.maxRequestsPerMinute,
                             @ + TokensToAdd(e)),
            !.lastRefill = clock]

\* refill of the main bucket
RefillMain(e) ==
  IF TokensToAdd(e) > 0
    THEN [e EXCEPT !.tokens = MinOf(config.maxRequestsPerMinute,
                                    @ + TokensToAdd(e)),
                   !.lastRefill = clock]
    ELSE e

\* refill of the burst bucket
RefillBurst(e) ==
  IF BurstTimeSinceRefill(e) >= config.burstWindowSeconds * MsPerSecond
    THEN [e EXCEPT !.burstTokens = config.burstCapacity,
                   !.lastBurstRefill = clock]
    ELSE e

\* the entry after both refill steps
Refilled(e) == RefillBurst(RefillMain(e))

SpentMainFirst(r) ==
  IF r.tokens > 0 THEN [r EXCEPT !.tokens = @ - 1]
  ELSE IF r.burstTokens > 0 THEN [r EXCEPT !.burstTokens = @ - 1]
  ELSE r

\* the refilled entry r after the attempt to consume from the burst bucket
\* first, then from the main bucket
Spent(r) ==
  IF r.burstTokens > 0 THEN [r EXCEPT !.burstTokens = @ - 1]
  ELSE IF r.tokens > 0 THEN [r EXCEPT !.tokens = @ - 1]
  ELSE r

\* what consume() returns when it works on the entry e
ConsumeReturns(e) ==
  LET r == Refilled(e)
      s == Spent(r)
  IN IF r.burstTokens > 0
       THEN [allowed |-> TRUE,
             remaining |-> s.tokens,
             burstRemaining |-> s.burstTokens,
             resetIn |-> CeilDiv(config.burstWindowSeconds * MsPerSecond
                                   - BurstTimeSinceRefill(e), MsPerSecond)]
     ELSE IF r.tokens > 0
       THEN [allowed |-> TRUE,
             remaining |-> s.tokens,
             burstRemaining |-> s.burstTokens,
             resetIn |-> RefillSeconds]
     ELSE [allowed |-> FALSE,
           remaining |-> 0,
           burstRemaining |-> 0,
           resetIn |-> RefillSeconds
                         - ((TimeSinceRefill(e) % RefillMs) \div MsPerSecond)]

\* the bucket consume() takes its token from when it works on the entry e
ConsumeSource(e) ==
  IF Refilled(e).burstTokens > 0 THEN "burst"
  ELSE IF Refilled(e).tokens > 0 THEN "main"
  ELSE "none"

\* consume(key), as one of at most n calls
ConsumeUpTo(k, n) ==
  /\ UNCHANGED <<queueVars, cacheVars, appVars, seatVars>>
  /\ consumes < n
  /\ consumes' = consumes + 1
  /\ buckets' = BucketsSet(buckets, k, Spent(Refilled(EntryOf(k))))
  /\ result' = ConsumeReturns(EntryOf(k))
  /\ history' = Append(history,
                   [key |-> k,
                    at |-> clock,
                    from |-> ConsumeSource(EntryOf(k)),
                    ret |-> ConsumeReturns(EntryOf(k)),
                    entry |-> Spent(Refilled(EntryOf(k)))])
  /\ UNCHANGED <<config, clock, advances>>

Consume(k) == ConsumeUpTo(k, MaxConsumes)

StaleAfterMilliseconds(e) == clock - e.lastRefill > 5 * 60

\* now - entry.lastRefill > maxAge
Stale(e) == clock - e.lastRefill > MaxAgeMs

\* cleanup(), run by the interval timer
Cleanup ==
  /\ UNCHANGED <<queueVars, cacheVars, appVars, seatVars>>
  /\ buckets' = BucketsKeep(buckets,
                   {k \in DOMAIN buckets : ~Stale(buckets[k])})
  /\ UNCHANGED <<config, clock, result, consumes, advances, history>>

\* time passes
Advance(d) ==
  /\ UNCHANGED <<queueVars, cacheVars, appVars, seatVars>>
  /\ advances < MaxAdvances
  /\ advances' = advances + 1
  /\ clock' = clock + d
  /\ UNCHANGED <<buckets, config, result, consumes, history>>

\* ====================================================== the application
\* the user ids asked for (1 is in mockUsers, 9 is not), the callers, and the
\* amounts of time, in milliseconds, that pass between two events
UserIds == {1, 9}
ExistingIds == {1}
Ips == {"ip1"}
AppAdvances == {1, 60000}

\* `user:${userId}`: the name the key has in the cache and in the queue
CacheKeyOf(id) == IF id = 1 THEN "a" ELSE "b"
QueueKeyOf(id) == IF id = 1 THEN 1 ELSE 2

\* mockUsers.get(userId) ?? null
Null == [kind |-> "null", msg |-> ""]
UserOf(id) == IF id \in ExistingIds THEN [kind |-> "data", msg |-> "u1"]
              ELSE Null

\* a user as the cache holds it, and as it is read back
Stored(u) == u.msg
FromCache(d) == [kind |-> "data", msg |-> d]

\* what the fetch closure of a request for id can produce when it goes to the
\* database: simulateDatabaseFetch resolves with the user or null; a backing
\* store that fails is allowed for as well
DbOutcomes(id) ==
  {Fulfilled(UserOf(id)), Rejected([kind |-> "Error", msg |-> "boom"])}

AdmittedAlways(ret) == TRUE

\* if (!result.allowed) { ... return; } next()
Admitted(ret) == ret.allowed

IsCachedNever(v) == FALSE

\* if (cachedUser)
IsCached(v) == v # Undefined

FoundAlways(u) == TRUE

\* if (!user)
Found(u) == u.kind # "null"

\* nothing runs and no promise job is waiting: a timer or a request can be
\* served
Quiet == Idle /\ microtasks = <<>>

\* the tasks that process() starts from the queue q with ac tasks active
StartedBy(q, ac) == ProcessLoop(q, ac, <<>>).started

\* the cache re-checks of the fetch closures of the tasks started, in order:
\* the state of the cache after them and what each one read
RECURSIVE Rechecks(_, _, _, _)
Rechecks(cs, started, keyOf, read) ==
  IF started = <<>> THEN [cs |-> cs, read |-> read]
  ELSE LET c == Head(started)
           k == CacheKeyOf(IF keyOf[c] = 1 THEN 1 ELSE 9)
       IN Rechecks(GotOn(cs, k), Tail(started), keyOf,
                   [read EXCEPT ![c] = GetReturns(cs.cache, k)])

\* the cache is left in the state cs
CacheBecomes(cs) ==
  /\ cache' = cs.cache
  /\ hits' = cs.hits
  /\ misses' = cs.misses
  /\ lastUse' = cs.lastUse
  /\ gets' = cs.gets

\* consume(key): what it does to the rate limiter
ConsumeBody(k) ==
  /\ consumes' = consumes + 1
  /\ buckets' = BucketsSet(buckets, k, Spent(Refilled(EntryOf(k))))
  /\ result' = ConsumeReturns(EntryOf(k))
  /\ history' = Append(history,
                   [key |-> k,
                    at |-> clock,
                    from |-> ConsumeSource(EntryOf(k)),
                    ret |-> ConsumeReturns(EntryOf(k)),
                    entry |-> Spent(Refilled(EntryOf(k)))])
  /\ UNCHANGED <<config, clock, advances>>

\* a request as it is received: who asks for what, when, the execute() call
\* it makes (0 for none), how it is answered, when, and how many requests
\* had been received by then
NewRequest(ip, id, c, st) ==
  [ip |-> ip, id |-> id, start |-> now, call |-> c, status |-> st,
   doneAt |-> now, seen |-> Len(reqs) + 1]

\* the request j is answered with the status st
Answered(j, st) ==
  [reqs EXCEPT ![j].status = st, ![j].doneAt = now, ![j].seen = Len(reqs)]

\* GET /users/:id up to its await: rateLimitMiddleware, then the handler's
\* cache look-up, then execute() with whatever tasks it starts
GetUser(ip, id) ==
  /\ UNCHANGED seatVars
  /\ Quiet
  /\ Len(reqs) < MaxRequests
  /\ ConsumeBody(ip)
  /\ LET k == CacheKeyOf(id)
         c == Len(callKey) + 1
         started == IF HasInFlight(QueueKeyOf(id)) \/ processing THEN <<>>
                    ELSE StartedBy(Append(queue, c), activeCount)
         after == Rechecks(GotOn(CacheState, k), started,
                           Append(callKey, QueueKeyOf(id)), rechecked)
     IN IF ~Admitted(ConsumeReturns(EntryOf(ip)))
          THEN /\ reqs' = Append(reqs, NewRequest(ip, id, 0, "429"))
               /\ UNCHANGED <<queueVars, cacheVars, rechecked>>
        ELSE IF IsCached(GetReturns(cache, k))
          THEN /\ Touches < MaxTouches
               /\ CacheBecomes(GotOn(CacheState, k))
               /\ responseTimes' = Pushed(responseTimes, 0)
               /\ samples' = samples + 1
               /\ reqs' = Append(reqs, NewRequest(ip, id, 0, "200 HIT"))
               /\ UNCHANGED <<queueVars, maxSize, ttl, now, rechecked>>
        ELSE /\ ExecuteBody(QueueKeyOf(id))
             /\ CacheBecomes(after.cs)
             /\ rechecked' = after.read
             /\ reqs' = Append(reqs, NewRequest(ip, id, c, "pending"))
             /\ UNCHANGED <<maxSize, ttl, now, responseTimes, samples>>

\* the fetch closure of the task r settles: with what its cache re-check read,
\* or with what the database gives
UserFetchSettles(r, o) ==
  /\ UNCHANGED <<cacheVars, rateVars, appVars, seatVars>>
  /\ microtasks = <<>>
  /\ r <= Len(callKey)
  /\ IF IsCached(rechecked[r]) THEN o = Fulfilled(FromCache(rechecked[r]))
     ELSE o \in DbOutcomes(IF callKey[r] = 1 THEN 1 ELSE 9)
  /\ FetchSettlesBody(r, o)

\* the .finally callback of a task, and the cache re-checks of the fetch
\* closures of the tasks it starts
UserRunFinally ==
  /\ UNCHANGED <<rateVars, reqs, seatVars>>
  /\ RunFinallyBody
  /\ LET started == IF Len(queue) > 0
                      THEN StartedBy(queue, activeCount - 1) ELSE <<>>
         after == Rechecks(CacheState, started, callKey, rechecked)
     IN /\ CacheBecomes(after.cs)
        /\ rechecked' = after.read
  /\ UNCHANGED <<maxSize, ttl, now, responseTimes, samples>>

\* the request that made the execute() call c
RequestOf(c) == CHOOSE j \in 1..Len(reqs) : reqs[j].call = c

\* GET /users/:id after its await: 500 in the catch block, 404 for no user,
\* else the user is cached and sent
UserRunContinuation ==
  /\ UNCHANGED <<rateVars, seatVars>>
  /\ RunContinuationBody
  /\ LET c == Head(microtasks).call
         j == RequestOf(c)
         got == promise[c]
         k == CacheKeyOf(reqs[j].id)
     IN IF got.state = "rejected"
          THEN /\ reqs' = Answered(j, "500")
               /\ UNCHANGED cacheVars
        ELSE IF ~Found(got.val)
          THEN /\ reqs' = Answered(j, "404")
               /\ UNCHANGED cacheVars
        ELSE /\ Touches < MaxTouches
             /\ cache' = SetEntries(cache, k, Stored(got.val))
             /\ lastUse' = [lastUse EXCEPT ![k] = Touches + 1]
             /\ responseTimes' = Pushed(responseTimes, now - reqs[j].start)
             /\ samples' = samples + 1
             /\ reqs' = Answered(j, "200 MISS")
             /\ UNCHANGED <<maxSize, ttl, hits, misses, now, gets>>
  /\ UNCHANGED rechecked

\* DELETE /cache: rateLimitMiddleware, then userCache.clear()
DeleteCache(ip) ==
  /\ UNCHANGED seatVars
  /\ Quiet
  /\ Len(reqs) < MaxRequests
  /\ ConsumeBody(ip)
  /\ IF ~Admitted(ConsumeReturns(EntryOf(ip)))
       THEN /\ reqs' = Append(reqs, NewRequest(ip, 0, 0, "429"))
            /\ UNCHANGED cacheVars
       ELSE /\ cache' = Cleared(Fields).cache
            /\ hits' = Cleared(Fields).hits
            /\ misses' = Cleared(Fields).misses
            /\ responseTimes' = Cleared(Fields).responseTimes
            /\ gets' = 0
            /\ reqs' = Append(reqs, NewRequest(ip, 0, 0, "200 cleared"))
            /\ UNCHANGED <<maxSize, ttl, now, lastUse, samples>>
  /\ UNCHANGED <<queueVars, rechecked>>

\* the sweep timer of the cache fires between two turns
SweepTimer ==
  /\ Quiet
  /\ Sweep

\* the time followed: to the first millisecond past one time-to-live
Horizon == UserCacheTtlSeconds * MsPerSecond + 1

\* time passes, for the cache and the rate limiter alike
Elapse(d) ==
  /\ Quiet
  /\ advances < MaxAdvances
  /\ now + d <= Horizon
  /\ advances' = advances + 1
  /\ now' = now + d
  /\ clock' = clock + d
  /\ UNCHANGED <<queueVars, appVars, seatVars>>
  /\ UNCHANGED <<cache, maxSize, ttl, hits, misses, lastUse, gets,
                 responseTimes, samples>>
  /\ UNCHANGED <<buckets, config, result, consumes, history>>

\* the rate limiter of the application after DrainedCalls calls of ip1 at
\* time 0 that went to routes using neither the cache nor the queue (GET
\* /users): the burst bucket of ip1 is empty and one sustained token is left
DrainedCalls == LimiterBurstCapacity + LimiterMaxRequestsPerMinute - 1

DrainedEntry(i) ==
  [tokens |-> IF i <= LimiterBurstCapacity THEN LimiterMaxRequestsPerMinute
              ELSE LimiterBurstCapacity + LimiterMaxRequestsPerMinute - i,
   burstTokens |-> IF i <= LimiterBurstCapacity THEN LimiterBurstCapacity - i
                   ELSE 0,
   lastRefill |-> 0,
   lastBurstRefill |-> 0]

DrainedReturn(i) ==
  [allowed |-> TRUE,
   remaining |-> DrainedEntry(i).tokens,
   burstRemaining |-> DrainedEntry(i).burstTokens,
   resetIn |-> IF i <= LimiterBurstCapacity THEN LimiterBurstWindowSeconds
               ELSE RefillSeconds]

LimiterDrained ==
  /\ buckets = [k \in {"ip1"} |-> DrainedEntry(DrainedCalls)]
  /\ config = [maxRequestsPerMinute |-> LimiterMaxRequestsPerMinute,
               burstCapacity |-> LimiterBurstCapacity,
               burstWindowSeconds |-> LimiterBurstWindowSeconds]
  /\ clock = 0
  /\ result = DrainedReturn(DrainedCalls)
  /\ consumes = DrainedCalls
  /\ advances = 0
  /\ history = [i \in 1..DrainedCalls |->
                  [key |-> "ip1",
                   at |-> 0,
                   from |-> IF i <= LimiterBurstCapacity THEN "burst"
                            ELSE "main",
                   ret |-> DrainedReturn(i),
                   entry |-> DrainedEntry(i)]]

\* ======================================================= seat selection
\* the seats of the map, by number
Seats == 1..(MAX_SEATS + ExtraSeats)
NoSeat == 0

\* an item of a stored array: the id of a seat, or a value that is no string
SeatItem(s) == [type |-> "string", id |-> s]
NumberItem == [type |-> "number", id |-> 0]

\* what localStorage.getItem can give: null, a text that is no JSON, the JSON
\* of a value that is no array, or the JSON of an array
Absent == [kind |-> "null", items |-> <<>>]
Garbage == [kind |-> "garbage", items |-> <<>>]
NotArray == [kind |-> "object", items |-> <<>>]
StoredArray(items) == [kind |-> "array", items |-> items]

\* the ids of the set S as an array (in ascending order, for the order in
\* which they were inserted)
RECURSIVE ArrayOf(_)
ArrayOf(S) ==
  IF S = {} THEN <<>>
  ELSE LET least == CHOOSE s \in S : \A t \in S : s <= t
       IN <<SeatItem(least)>> \o ArrayOf(S \ {least})

\* what can be found in the storage when the page is opened
StoredValues ==
  {Absent, Garbage, NotArray}
    \cup {StoredArray(ArrayOf(S)) : S \in SUBSET Seats}
    \cup {StoredArray(<<NumberItem>> \o ArrayOf(S) \o ArrayOf(S)) :
            S \in {{1}, {1, 2}}}

\* loadPersistedSelection() and new Set(...): the strings of a stored array,
\* and nothing for anything else
LoadPersistedSelection(st) ==
  IF st.kind = "array"
    THEN {st.items[i].id :
            i \in {n \in 1..Len(st.items) : st.items[n].type = "string"}}
    ELSE {}

\* persistSelection(Array.from(selectedSeatIds))
PersistSelection(S) == StoredArray(ArrayOf(S))

\* useSeatSelection() as a page that was never used mounts it
SeatNew ==
  /\ storage = Absent
  /\ selectedSeatIds = {}
  /\ focusedSeatId = NoSeat

\* useSeatSelection() as a page mounts it, with anything in the storage
SeatInit ==
  /\ storage \in StoredValues
  /\ selectedSeatIds = LoadPersistedSelection(storage)
  /\ focusedSeatId = NoSeat

\* the selection after toggleSeat(seatId)
Toggled(prev, s) ==
  IF s \in prev THEN prev \ {s}
  ELSE IF Cardinality(prev) < MAX_SEATS THEN prev \cup {s}
  ELSE prev

\* toggleSeat(seatId), and the effect that persists the selection
ToggleSeat(s) ==
  /\ selectedSeatIds' = Toggled(selectedSeatIds, s)
  /\ storage' = PersistSelection(Toggled(selectedSeatIds, s))
  /\ UNCHANGED focusedSeatId
  /\ UNCHANGED <<queueVars, cacheVars, rateVars, appVars>>

\* removeSeat(seatId), and the effect that persists the selection
RemoveSeat(s) ==
  /\ selectedSeatIds' = selectedSeatIds \ {s}
  /\ storage' = PersistSelection(selectedSeatIds \ {s})
  /\ UNCHANGED focusedSeatId
  /\ UNCHANGED <<queueVars, cacheVars, rateVars, appVars>>

\* clearSelection(), and the effect that persists the selection
ClearSelection ==
  /\ selectedSeatIds' = {}
  /\ storage' = PersistSelection({})
  /\ focusedSeatId' = NoSeat
  /\ UNCHANGED <<queueVars, cacheVars, rateVars, appVars>>

\* setFocusedSeat(seatId)
SetFocusedSeat(s) ==
  /\ focusedSeatId' = s
  /\ UNCHANGED <<selectedSeatIds, storage>>
  /\ UNCHANGED <<queueVars, cacheVars, rateVars, appVars>>

\* the page is loaded again: the hook mounts with what is stored, and its
\* effect persists what it loaded
Reload ==
  /\ selectedSeatIds' = LoadPersistedSelection(storage)
  /\ storage' = PersistSelection(LoadPersistedSelection(storage))
  /\ focusedSeatId' = NoSeat
  /\ UNCHANGED <<queueVars, cacheVars, rateVars, appVars>>

\* ------------------------------------------------------- specifications
\* no request received yet
AppNew ==
  /\ reqs = <<>>
  /\ rechecked = [c \in Calls |-> Undefined]

\* the rate limiter of the application as constructed
LimiterNew ==
  RateNew(LimiterMaxRequestsPerMinute, LimiterBurstCapacity,
          LimiterBurstWindowSeconds)

\* the shared queue with the shared cache and rate limiter left untouched
Init ==
  /\ \E limit \in Limits : QueueNew(limit)
  /\ CacheNew(UserCacheMaxSize, UserCacheTtlSeconds * MsPerSecond)
  /\ LimiterNew
  /\ AppNew
  /\ SeatNew

Next ==
  \/ \E k \in Keys : Submit(k)
  \/ \E r \in Calls, o \in FetchOutcomes : FetchSettles(r, o)
  \/ NotifyWaiter
  \/ Finally
  \/ RunReaction
  \/ RunFinally
  \/ RunContinuation
  \/ Clear

\* RequestQueue under execute, clear and fetch completions
Spec == Init /\ [][Next]_vars

ExecNext ==
  \/ \E k \in Keys : SubmitNoClear(k)
  \/ \E r \in Calls, o \in FetchOutcomes : FetchSettles(r, o)
  \/ NotifyWaiter
  \/ Finally
  \/ RunReaction
  \/ RunFinally
  \/ RunContinuation

\* RequestQueue under execute and fetch completions, clear() never called
ExecSpec == Init /\ [][ExecNext]_vars

\* the same where every fetch that was started settles and every job of the
\* task bodies and of the promise job queue runs
LiveSpec ==
  /\ Init
  /\ [][Next]_vars
  /\ WF_vars(\E r \in Calls, o \in FetchOutcomes : FetchSettles(r, o))
  /\ WF_vars(NotifyWaiter)
  /\ WF_vars(Finally)
  /\ WF_vars(RunReaction)
  /\ WF_vars(RunFinally)
  /\ WF_vars(RunContinuation)

\* every call has a key of its own, so no record has waiters to notify
FifoNext ==
  \/ \E k \in Keys : SubmitNext(k)
  \/ \E r \in Calls, o \in FetchOutcomes : FetchSettles(r, o)
  \/ Finally
  \/ RunReaction
  \/ RunFinally
  \/ RunContinuation
  \/ Clear

\* RequestQueue under execute calls for keys that are all different, clear
\* and fetch completions
FifoSpec == Init /\ [][FifoNext]_vars

\* a cache of any small capacity and ttl, the shared queue left untouched
CacheInit ==
  /\ \E size \in Capacities, t \in Ttls : CacheNew(size, t)
  /\ QueueNew(UserQueueConcurrency)
  /\ LimiterNew
  /\ AppNew
  /\ SeatNew

CacheNext ==
  \/ \E k \in CacheKeys : Get(k)
  \/ \E k \in CacheKeys, v \in CacheValues : Set(k, v)
  \/ \E k \in CacheKeys : Has(k)
  \/ \E k \in CacheKeys : Delete(k)
  \/ CacheClear
  \/ Sweep
  \/ Tick

\* LRUCache under its public operations, the sweep timer and the clock
CacheSpec == CacheInit /\ [][CacheNext]_vars

\* the keys and values used where the statistics are polled
StatKeys == {"a", "b"}
StatValues == {"v1"}

\* a cache of any small capacity and ttl beside a queue that is idle or busy
StatsInit ==
  /\ \E size \in Capacities, t \in Ttls : CacheNew(size, t)
  /\ QueueNew(1) \/ QueueBusy
  /\ LimiterNew
  /\ AppNew
  /\ SeatNew

StatsNext ==
  \/ \E k \in StatKeys : GetUpTo(k, MaxCountedGets)
  \/ \E k \in StatKeys, v \in StatValues : Set(k, v)
  \/ \E ms \in SampleTimes : RecordResponseTime(ms)
  \/ CacheClear
  \/ GetStats
  \/ GetStatus

\* LRUCache with its response-time log, polled through getStats() while the
\* queue is polled through getStatus()
StatsSpec == StatsInit /\ [][StatsNext]_vars

\* the value stored where the subject is the lifetime of the entries
TtlValues == {"v1"}

TtlNext ==
  \/ \E k \in CacheKeys : Get(k)
  \/ \E k \in CacheKeys, v \in TtlValues : Set(k, v)
  \/ \E k \in CacheKeys : Has(k)
  \/ \E k \in CacheKeys : Delete(k)
  \/ CacheClear
  \/ Sweep
  \/ Tick

\* LRUCache under its public operations, the sweep timer and the clock, one
\* value being stored under every key
TtlSpec == CacheInit /\ [][TtlNext]_vars

CountNext ==
  \/ \E k \in StatKeys : GetUpTo(k, MaxCountedGets)
  \/ \E k \in StatKeys, v \in StatValues : Set(k, v)
  \/ \E k \in StatKeys : Has(k)
  \/ \E k \in StatKeys : Delete(k)
  \/ CacheClear
  \/ GetStats
  \/ Sweep
  \/ Tick

\* LRUCache under its operations on the entries, getStats(), the sweep timer
\* and the clock, with several get calls between two clears
CountSpec == CacheInit /\ [][CountNext]_vars

\* a rate limiter of any small configuration, the shared queue and cache
\* left untouched
RateInit ==
  /\ \E max \in RateCapacities, burst \in BurstCapacities,
        window \in BurstWindows : RateNew(max, burst, window)
  /\ QueueNew(UserQueueConcurrency)
  /\ CacheNew(UserCacheMaxSize, UserCacheTtlSeconds * MsPerSecond)
  /\ AppNew
  /\ SeatNew

RateNext ==
  \/ \E k \in RateKeys : Consume(k)
  \/ \E d \in Advances : Advance(d)
  \/ Cleanup

\* TokenBucketRateLimiter under consume, its cleanup timer and the clock
RateSpec == RateInit /\ [][RateNext]_vars

\* the one identity that calls, and the amounts of time that pass between
\* its calls, where the limiter of the application is the subject
LimiterKeys == {"ip1"}
LimiterAdvances == {5000, 6000}

\* the application as constructed
LimiterInit ==
  /\ LimiterNew
  /\ QueueNew(UserQueueConcurrency)
  /\ CacheNew(UserCacheMaxSize, UserCacheTtlSeconds * MsPerSecond)
  /\ AppNew
  /\ SeatNew

BurstNext ==
  \/ \E k \in LimiterKeys : ConsumeUpTo(k, MaxLimiterCalls)
  \/ \E d \in LimiterAdvances : Advance(d)

\* the rate limiter of the application under the calls of one identity and
\* the clock
BurstSpec == LimiterInit /\ [][BurstNext]_vars

\* the amounts of time that pass between the calls of an identity that lets
\* its buckets refill, or stays away until they are stale
RefillAdvances == {3000, 9000, MaxAgeMs + 1}

RefillNext ==
  \/ \E k \in LimiterKeys : ConsumeUpTo(k, MaxLimiterCalls)
  \/ \E d \in RefillAdvances : Advance(d)
  \/ Cleanup

\* the rate limiter of the application under the calls of one identity that
\* come seconds or minutes apart, and its cleanup timer
RefillSpec == LimiterInit /\ [][RefillNext]_vars

\* the amounts of time that pass where a rejected identity calls again
RetryAdvances == {2500, 4000, 6000}

RetryNext ==
  \/ \E k \in LimiterKeys : ConsumeUpTo(k, MaxLimiterCalls)
  \/ \E d \in RetryAdvances : Advance(d)
  \/ Cleanup

\* the rate limiter of the application under the calls of one identity, at
\* times that are not whole seconds apart, and its cleanup timer
RetrySpec == LimiterInit /\ [][RetryNext]_vars

\* the application as constructed, the buckets of ip1 in the rate limiter
\* nearly empty
AppInit ==
  /\ LimiterDrained
  /\ QueueNew(UserQueueConcurrency)
  /\ CacheNew(UserCacheMaxSize, UserCacheTtlSeconds * MsPerSecond)
  /\ AppNew
  /\ SeatNew

AppNext ==
  \/ \E ip \in Ips, id \in UserIds : GetUser(ip, id)
  \/ \E r \in Calls, o \in FetchOutcomes \cup {Fulfilled(Null)} :
        UserFetchSettles(r, o)
  \/ NotifyWaiter
  \/ Finally
  \/ RunReaction
  \/ UserRunFinally
  \/ UserRunContinuation
  \/ \E ip \in Ips : DeleteCache(ip)
  \/ \E d \in AppAdvances : Elapse(d)
  \/ SweepTimer

\* the application: requests through the rate limiter, the cache and the
\* queue, the fetches, the sweep timer and the clock
AppSpec == AppInit /\ [][AppNext]_vars

\* the backend as constructed, and the seat selection of a page that finds
\* anything in its storage
SeatSpecInit ==
  /\ LimiterNew
  /\ QueueNew(UserQueueConcurrency)
  /\ CacheNew(UserCacheMaxSize, UserCacheTtlSeconds * MsPerSecond)
  /\ AppNew
  /\ SeatInit

SeatNext ==
  \/ \E s \in Seats : ToggleSeat(s)
  \/ \E s \in Seats : RemoveSeat(s)
  \/ ClearSelection
  \/ \E s \in Seats \cup {NoSeat} : SetFocusedSeat(s)
  \/ Reload

\* the seat selection of a page
SeatSpec == SeatSpecInit /\ [][SeatNext]_vars

\* ================================================= RequestQueue: claims
Made == 1..Len(callKey)
Originators == {c \in Made : task[c] # "none"}
Waiters(r) == {pendingResolvers[r][i] : i \in 1..Len(pendingResolvers[r])}
Members(r) == {r} \cup Waiters(r)
\* the record a call belongs to: its own, or the one it was attached to
RecOf(c) == IF task[c] # "none" THEN c
            ELSE CHOOSE r \in Made : c \in Waiters(r)
\* the same, in the state after the step
RecAfter(c) == IF task'[c] # "none" THEN c
               ELSE CHOOSE r \in 1..Len(callKey') : c \in Waiters(r)'
Observers == {delivered[i].call : i \in 1..Len(delivered)}
\* fetches started and not yet settled
Running == {c \in Made : task[c] = "running"}
RunningCount == Cardinality(Running)
\* this step is an execute() call
IsCall == Len(callKey') = Len(callKey) + 1
NewCall == Len(callKey) + 1
NewKey == callKey'[Len(callKey) + 1]
\* the task body of record r has run to its end
Broadcasted(r) == task[r] = "settled" /\ handler.rec # r

TypeOK ==
  /\ activeCount \in 0..NumCalls
  /\ processing = FALSE
  /\ \A c \in Calls : fetchCalls[c] \in 0..1
  /\ \A k \in Keys : inFlight[k] \in 0..Len(callKey)

\* C1: at most one fetch is running for any given key, in every reachable
\* state, under execute, clear and fetch completions
C1_OneFetchPerKey ==
  \A k \in Keys : Cardinality({c \in Running : callKey[c] = k}) <= 1

\* C2: an execute(k) call issued while the fetch of an earlier call for k has
\* not settled invokes no fetch and joins that call's record; the fetch of a
\* record is invoked once, no waiter's fetch is ever invoked, and all callers
\* of a record settle with the identical value
C2_Coalesced ==
  /\ \A r \in Originators :
       /\ task[r] \in {"running", "settled"} => fetchCalls[r] = 1
       /\ task[r] \in {"queued", "dropped"} => fetchCalls[r] = 0
       /\ Broadcasted(r) =>
            \A m \in Members(r) : promise[m] = promise[r] /\ promise[m] # Pending
  /\ \A c \in Made \ Originators : fetchCalls[c] = 0
  /\ \A i \in 1..Len(delivered) :
       delivered[i].got = promise[RecOf(delivered[i].call)]

C2_Dedup ==
  [][/\ IsCall =>
          \A r \in Originators :
            (callKey[r] = NewKey /\ task[r] \in {"queued", "running"}) =>
              /\ fetchCalls' = fetchCalls
              /\ task'[NewCall] = "none"
              /\ NewCall \in Waiters(r)'
     /\ C2_Coalesced']_vars

\* three callers of one key, one fetch, all three have seen the same value
C2_Witness ==
  \E r \in Originators :
    /\ Len(pendingResolvers[r]) >= 2
    /\ promise[r].state = "fulfilled"
    /\ Members(r) \subseteq Observers
    /\ fetchCalls[r] = 1

\* C3: the number of fetches started and not yet settled never exceeds the
\* concurrency limit
C3_ConcurrencyCap == RunningCount <= concurrency

\* concurrency + 5 distinct keys submitted at once: the limit is reached and
\* the other five wait in the queue
C3_Witness ==
  /\ concurrency >= 1
  /\ Len(callKey) = concurrency + BurstExtra
  /\ \A c \in Made : callKey[c] = c
  /\ RunningCount = concurrency
  /\ Len(queue) = BurstExtra

\* C4: when the fetch of a record fails, the originator and every attached
\* waiter are rejected with the same failure and the key has left the
\* in-flight map when the task body ends; only an execute(key) puts the key
\* back, and that call owns a fresh record and fetch instead of waiting on
\* the failed one or failing
C4_FailureFreesKey ==
  [][/\ (~Idle /\ Idle' /\ handler.out.state = "rejected") =>
          /\ \A m \in Members(handler.rec) :
               /\ promise'[m] = promise'[handler.rec]
               /\ promise'[m].state = "rejected"
          /\ inFlight'[callKey[handler.rec]] = 0
     /\ \A k \in Keys :
          (inFlight[k] = 0 /\ inFlight'[k] # 0) => (IsCall /\ NewKey = k)
     /\ (IsCall /\ inFlight[NewKey] = 0) =>
          /\ inFlight'[NewKey] = NewCall
          /\ task'[NewCall] \in {"queued", "running"}
          /\ task'[NewCall] = "running" => fetchCalls'[NewCall] = 1
          /\ promise'[NewCall] = Pending]_vars

\* a fetch with a waiter failed, and a later call for the key ran its own fetch
C4_Witness ==
  \E r \in Originators, c \in Originators :
    /\ r < c
    /\ callKey[r] = callKey[c]
    /\ Broadcasted(r)
    /\ promise[r].state = "rejected"
    /\ Waiters(r) # {}
    /\ \A w \in Waiters(r) : w < c /\ promise[w] = promise[r]
    /\ fetchCalls[c] = 1

\* C5 as stated: every caller of a failed record is rejected with exactly the
\* value the fetch failed with
C5_Verbatim ==
  \A r \in Originators :
    (Broadcasted(r) /\ fetched[r].state = "rejected") =>
      \A m \in Members(r) : promise[m] = fetched[r]

\* C5 as amended: every caller of a failed record is rejected with the thrown
\* value itself when it is an Error and with a new Error carrying its string
\* form otherwise, the same for all callers; the fetch is invoked once
C5_ErrorNormalised ==
  \A r \in Originators :
    (Broadcasted(r) /\ fetched[r].state = "rejected") =>
      /\ \A m \in Members(r) :
           promise[m] =
             Rejected(IF fetched[r].val.kind = "Error"
                        THEN fetched[r].val
                        ELSE [kind |-> "Error", msg |-> fetched[r].val.msg])
      /\ fetchCalls[r] = 1

\* a fetch threw a string and its originator and waiter have been rejected
C5_Witness ==
  \E r \in Originators :
    /\ Broadcasted(r)
    /\ fetched[r] = Rejected([kind |-> "string", msg |-> "oops"])
    /\ Waiters(r) # {}
    /\ Members(r) \subseteq Observers

After(r) == {c \in Made : c > r /\ callKey[c] = callKey[r] /\ c \notin Members(r)}

\* C7 as stated: when the callers that observed the outcome of a record call
\* execute for its key (each at most once), every such call creates a new
\* record of its own
C7_AlwaysFreshRecord ==
  [][IsCall =>
       \A r \in Originators :
         (/\ callKey[r] = NewKey
          /\ clears = 0
          /\ Cardinality(After(r)) < Cardinality(Members(r) \cap Observers)) =>
           (task'[NewCall] # "none" /\ inFlight'[NewKey] = NewCall)]_vars

\* C7 as amended: an execute(key) call made after a caller observed the
\* outcome of a record for key never joins that record: it creates a new
\* record, or joins a newer record whose fetch has not settled
C7_NeverJoinsCompleted ==
  [][IsCall =>
       /\ \A c \in Observers :
            callKey[c] = NewKey => RecAfter(NewCall) # RecOf(c)
       /\ \/ task'[NewCall] \in {"queued", "running"} /\ inFlight'[NewKey] = NewCall
          \/ /\ task'[NewCall] = "none"
             /\ task[RecAfter(NewCall)] \in {"queued", "running"}]_vars

\* two callers observed a record's outcome and called again: the first call
\* created a new record, the second joined it
C7_Witness ==
  \E r \in Originators, r2 \in Originators :
    /\ callKey[r] = callKey[r2]
    /\ Cardinality(Members(r) \cap Observers) >= 2
    /\ \A m \in Members(r) : m < r2
    /\ Waiters(r2) # {}

\* attachment order within a record: the originator, then the waiters in the
\* order of their execute() calls
AttachedBefore(m, c) == m # c /\ (task[m] # "none" \/ m < c)

\* C8: the outcome of a record is delivered once to each of its callers, the
\* originator first and the waiters in attachment order, nobody skipped, and
\* everybody receives the record's outcome
C8_OrderedDelivery ==
  /\ \A i, j \in 1..Len(delivered) :
       i < j => delivered[i].call # delivered[j].call
  /\ \A j \in 1..Len(delivered) :
       LET c == delivered[j].call IN
         /\ delivered[j].got = promise[RecOf(c)]
         /\ delivered[j].got # Pending
         /\ \A m \in Members(RecOf(c)) :
              AttachedBefore(m, c) => \E i \in 1..(j - 1) : delivered[i].call = m
  /\ (Idle /\ microtasks = <<>>) =>
       \A r \in Originators : task[r] = "settled" => Members(r) \subseteq Observers

\* a failed record with two waiters has been delivered to all three callers
C8_Witness ==
  \E r \in Originators :
    /\ Len(pendingResolvers[r]) = 2
    /\ promise[r].state = "rejected"
    /\ Members(r) \subseteq Observers

\* ===================================================== LRUCache: claims
\* C9: the number of stored entries never exceeds maxSize, for every
\* configured maxSize (0 included)
C9_SizeBounded == Len(cache) <= maxSize

\* C10: a set of a key that is not stored, on a cache holding maxSize >= 1
\* entries, removes exactly one entry, the one whose last set or successful
\* get is the oldest, and leaves the other entries as they were
C10_EvictsLeastRecentlyUsed ==
  [][\A k \in CacheKeys :
       (/\ k \notin KeySet(cache)
        /\ k \in KeySet(cache')
        /\ maxSize >= 1
        /\ Len(cache) = maxSize) =>
         \E e \in KeySet(cache) :
           /\ KeySet(cache') = (KeySet(cache) \ {e}) \cup {k}
           /\ \A j \in KeySet(cache) : lastUse[e] <= lastUse[j]
           /\ \A j \in KeySet(cache) \ {e} :
                Lookup(cache', j) = Lookup(cache, j)]_vars

\* maxSize = 2 and set(a); set(b); get(a); set(c): b is gone, a is kept
C10_Witness ==
  /\ maxSize = 2
  /\ KeysOf(cache) = <<"a", "c">>
  /\ cache[1].accessCount = 2
  /\ hits = 1
  /\ lastUse = [k \in CacheKeys |-> CASE k = "a" -> 3 [] k = "b" -> 2 [] k = "c" -> 4]

\* the entries of a Map
Entries(m) == {m[i] : i \in 1..Len(m)}

\* the age of an entry is at most ttl
WithinTtl(e) == now - e.timestamp <= ttl

\* the entry is still stored after the step, with its value and timestamp
Kept(e) ==
  /\ e.key \in KeySet(cache')
  /\ Lookup(cache', e.key).data = e.data
  /\ Lookup(cache', e.key).timestamp = e.timestamp

\* a step of get, has, the sweep or the clock: none of them deletes, clears,
\* overwrites or evicts
ReadOrSweepOrTick ==
  \/ \E k \in CacheKeys : Get(k)
  \/ \E k \in CacheKeys : Has(k)
  \/ Sweep
  \/ Tick

\* what get returns for the stored entries: the value up to the age ttl,
\* absent beyond it
ReturnedIffWithinTtl ==
  \A e \in Entries(cache) :
    GetReturns(cache, e.key) = IF WithinTtl(e) THEN e.data ELSE Undefined

\* C11: set stores the value with the time of the call; as long as the entry
\* is not deleted, cleared, overwritten or evicted it stays stored with that
\* time and value while its age is at most ttl, whatever get, has and the
\* sweep do, and get returns its value exactly while its age is at most ttl:
\* a get of an older entry, swept or not, is a miss
C11_FreshUntilTtl ==
  [][/\ \A k \in CacheKeys, v \in CacheValues :
          (lastUse'[k] # lastUse[k] /\ Set(k, v)) =>
             /\ Lookup(cache', k).data = v
             /\ Lookup(cache', k).timestamp = now
     /\ \/ \A e \in Entries(cache) : WithinTtl(e) => Kept(e)
        \/ ~ReadOrSweepOrTick
     /\ \A k \in CacheKeys :
          (gets' = gets + 1 /\ Get(k)) =>
             /\ (hits' = hits + 1) = (GetReturns(cache, k) # Undefined)
             /\ (misses' = misses + 1) = (GetReturns(cache, k) = Undefined)
     /\ ReturnedIffWithinTtl']_vars

\* an entry that was read is exactly ttl old and get still returns it, while
\* another stored entry is older than ttl and get returns absent for it
C11_Witness ==
  /\ ttl = 1
  /\ hits = 1
  /\ \E e \in Entries(cache) :
       /\ now - e.timestamp = ttl
       /\ e.accessCount = 2
       /\ GetReturns(cache, e.key) = e.data
  /\ \E e \in Entries(cache) :
       /\ now - e.timestamp > ttl
       /\ GetReturns(cache, e.key) = Undefined

\* C12: the timestamp of a stored entry changes only in a set of its key,
\* which stamps it with the time of the call and access count 1; get and has
\* leave it alone however often they are called, a successful get adding one
\* to the access count; so an entry older than ttl is absent for get and has
\* even if it was read before
C12_AbsoluteTtl ==
  [][/\ \A e \in Entries(cache) :
          (/\ e.key \in KeySet(cache')
           /\ Lookup(cache', e.key).timestamp # e.timestamp) =>
             \E v \in CacheValues : Set(e.key, v)
     /\ \A k \in CacheKeys :
          (lastUse'[k] # lastUse[k] /\ gets' = gets) =>
             /\ Lookup(cache', k).timestamp = now
             /\ Lookup(cache', k).accessCount = 1
     /\ \A k \in CacheKeys :
          (lastUse'[k] # lastUse[k] /\ gets' = gets + 1) =>
             /\ Lookup(cache', k).timestamp = Lookup(cache, k).timestamp
             /\ Lookup(cache', k).accessCount = Lookup(cache, k).accessCount + 1
     /\ \A e \in Entries(cache') :
          (now' - e.timestamp > ttl') =>
             /\ GetReturns(cache, e.key)' = Undefined
             /\ ~HasReturns(cache, e.key)']_vars

\* an entry was read by a successful get while it was fresh, is now older
\* than ttl and is absent for get and has
C12_Witness ==
  \E e \in Entries(cache) :
    /\ e.accessCount = 2
    /\ hits = 1
    /\ now - e.timestamp > ttl
    /\ GetReturns(cache, e.key) = Undefined
    /\ ~HasReturns(cache, e.key)

\* C13: has(key) answers true exactly when get(key) would return a value; a
\* has that changes anything removes the expired entry of its key and nothing
\* else: the other entries, their order and access counts and the hit and
\* miss counters stay as they were
C13_HasIsGetWithoutTouch ==
  [][/\ \A k \in CacheKeys :
          HasReturns(cache, k)' = (GetReturns(cache, k)' # Undefined)
     /\ \A k \in CacheKeys :
          (gets' = gets /\ lastUse' = lastUse /\ Has(k)) =>
             /\ k \in KeySet(cache)
             /\ now - Lookup(cache, k).timestamp > ttl
             /\ ~HasReturns(cache, k)
             /\ cache' = MapDelete(cache, k)
             /\ hits' = hits /\ misses' = misses]_vars

\* two stored entries, one read before: has answers false for the one that
\* is older than ttl and true for the other
C13_Witness ==
  \E e, f \in Entries(cache) :
    /\ now - e.timestamp > ttl
    /\ ~HasReturns(cache, e.key)
    /\ now - f.timestamp <= ttl
    /\ HasReturns(cache, f.key)
    /\ hits = 1

\* C14: a set of a key that is stored evicts nothing, at capacity or not: the
\* same keys are stored afterwards, the other entries keep their order and
\* content, and the key is last (most recently used) and holds the new value
C14_OverwriteKeepsOthers ==
  [][\A k \in CacheKeys, v \in CacheValues :
       (/\ k \in KeySet(cache)
        /\ lastUse'[k] # lastUse[k]
        /\ gets' = gets
        /\ Set(k, v)) =>
          /\ KeySet(cache') = KeySet(cache)
          /\ Len(cache') = Len(cache)
          /\ SubSeq(cache', 1, Len(cache') - 1) = MapDelete(cache, k)
          /\ cache'[Len(cache')].key = k
          /\ cache'[Len(cache')].data = v]_vars

\* a cache of capacity 2 holding a and b, after set(a, v2) on the stored a:
\* b is still there, a is last and holds v2
C14_Witness ==
  /\ maxSize = 2
  /\ KeysOf(cache) = <<"b", "a">>
  /\ cache[1].data = "v1"
  /\ cache[2].data = "v2"
  /\ hits = 0
  /\ lastUse = [k \in CacheKeys |-> CASE k = "a" -> 3 [] k = "b" -> 2 [] k = "c" -> 0]

\* C15: every get call adds one to the hit counter when it returns a value and
\* one to the miss counter when the key is absent or expired, and leaves the
\* other counter alone; only get and clear change the counters; and what
\* getStats reports as totalRequests is hits + misses, the number of get calls
\* since construction or the last clear
C15_CountersCountGets ==
  /\ Stats.totalRequests = gets
  /\ [][/\ \A k \in StatKeys :
            (gets' = gets + 1 /\ GetUpTo(k, MaxCountedGets)) =>
               IF GetReturns(cache, k) # Undefined
                 THEN hits' = hits + 1 /\ misses' = misses
                 ELSE misses' = misses + 1 /\ hits' = hits
        /\ \/ hits' = hits /\ misses' = misses
           \/ \E k \in StatKeys : GetUpTo(k, MaxCountedGets)
           \/ CacheClear
        /\ Stats'.totalRequests = Stats'.hits + Stats'.misses
        /\ Stats'.totalRequests = gets']_vars

\* one get that returned a value (its entry was accessed twice) and one that
\* did not, on a cache whose only entry has since outlived its ttl
C15_Witness ==
  /\ \E e \in Entries(cache) : e.accessCount = 2 /\ ~WithinTtl(e)
  /\ Len(cache) = 1
  /\ gets = 2
  /\ Stats.hits = 1
  /\ Stats.misses = 1
  /\ Stats.totalRequests = 2

\* C16: getStats() leaves the entries and their order, the hit and miss
\* counters and the response-time log as they were, and getStatus() leaves the
\* in-flight map, the pending queue and the active count as they were,
\* however often they are called
C16_PureReads ==
  [][/\ GetStats => UNCHANGED <<cache, hits, misses, responseTimes>>
     /\ GetStatus => UNCHANGED <<inFlight, queue, activeCount>>]_vars

\* a state with something of everything to disturb: two entries in an order,
\* a hit and a miss counted, a response time logged, a key in flight with its
\* task running and another pending
C16_Witness ==
  /\ Stats.size = 2
  /\ Stats.hits = 1
  /\ Stats.misses = 1
  /\ Stats.avgResponseTimeTimes100 > 0
  /\ Status.queueLength = 1
  /\ Status.activeRequests = 1
  /\ Status.inFlightKeys = {1, 2}

\* C17: clear() leaves size 0, hits 0, misses 0 and an empty response-time
\* log, and a second clear() right after it changes nothing
C17_ClearIdempotent ==
  [][CacheClear =>
       /\ Fields' = Cleared(Fields)
       /\ Cleared(Fields') = Fields'
       /\ Stats'.size = 0
       /\ Stats'.hits = 0
       /\ Stats'.misses = 0
       /\ Stats'.totalRequests = 0
       /\ responseTimes' = <<>>]_vars

\* a cleared cache that had been written to: two response times were logged
\* and two accesses made, and the log, the Map and the counters are empty
C17_Witness ==
  /\ samples = 2
  /\ \E k \in StatKeys : lastUse[k] = 2
  /\ Fields = Cleared(Fields)
  /\ Stats.size = 0

\* C18: the values returned by get and has do not depend on whether the
\* sweep has run: in every reachable state, reading a key right away, or
\* after a set, returns the same with a sweep run first as without one
C18_SweepUnobservable ==
  \A q \in CacheKeys :
    /\ GetReturns(DropExpired(cache), q) = GetReturns(cache, q)
    /\ HasReturns(DropExpired(cache), q) = HasReturns(cache, q)
    /\ \A k \in CacheKeys, v \in TtlValues :
         /\ GetReturns(SetEntries(DropExpired(cache), k, v), q)
              = GetReturns(SetEntries(cache, k, v), q)
         /\ HasReturns(SetEntries(DropExpired(cache), k, v), q)
              = HasReturns(SetEntries(cache, k, v), q)

\* ========================================= TokenBucketRateLimiter: claims
\* C19: for every identity that has a bucket, after any sequence of consume
\* calls at non-decreasing times and for capacities that are non-negative
\* integers, 0 <= tokens <= maxRequestsPerMinute and
\* 0 <= burstTokens <= burstCapacity
C19_TokensWithinCapacity ==
  \A k \in DOMAIN buckets :
    /\ 0 <= buckets[k].tokens
    /\ buckets[k].tokens <= config.maxRequestsPerMinute
    /\ 0 <= buckets[k].burstTokens
    /\ buckets[k].burstTokens <= config.burstCapacity

\* a bucket of capacity 1 made and emptied at time 0 and used again 12 s
\* later: two tokens were due, one was credited and spent
C19_Witness ==
  /\ config = [maxRequestsPerMinute |-> 1, burstCapacity |-> 0,
               burstWindowSeconds |-> 10]
  /\ clock = 2 * RefillMs
  /\ consumes = 2
  /\ result.allowed
  /\ \E k \in RateKeys :
       /\ DOMAIN buckets = {k}
       /\ buckets[k] = [tokens |-> 0, burstTokens |-> 0,
                        lastRefill |-> clock, lastBurstRefill |-> clock]

\* C20: with r the entry after the refill steps of a consume call: if
\* r.burstTokens > 0 the call is allowed and the entry is r with one burst
\* token less; else if r.tokens > 0 the call is allowed and the entry is r
\* with one sustained token less; else the call is rejected; and the call is
\* rejected exactly when both buckets of r are empty
C20_BurstThenSustained ==
  [][\A k \in RateKeys :
       (consumes' = consumes + 1 /\ Consume(k)) =>
         LET r == Refilled(EntryOf(k)) IN
           /\ r.burstTokens > 0 =>
                /\ result'.allowed
                /\ buckets'[k] = [r EXCEPT !.burstTokens = @ - 1]
           /\ (~(r.burstTokens > 0) /\ r.tokens > 0) =>
                /\ result'.allowed
                /\ buckets'[k] = [r EXCEPT !.tokens = @ - 1]
           /\ (~(r.burstTokens > 0) /\ ~(r.tokens > 0)) => ~result'.allowed
           /\ ~result'.allowed <=> (r.burstTokens = 0 /\ r.tokens = 0)
           /\ \A x \in DOMAIN buckets \ {k} : buckets'[x] = buckets[x]]_vars

\* three calls of one identity at time 0 with one token in each bucket: the
\* burst token went, then the sustained one, then the call was rejected
C20_Witness ==
  /\ config = [maxRequestsPerMinute |-> 1, burstCapacity |-> 1,
               burstWindowSeconds |-> 10]
  /\ clock = 0
  /\ consumes = 3
  /\ ~result.allowed
  /\ \E k \in RateKeys :
       /\ DOMAIN buckets = {k}
       /\ buckets[k].tokens = 0
       /\ buckets[k].burstTokens = 0

\* the consume() calls made for the key k, in order
CallsOf(k) == SelectSeq(history, LAMBDA h : h.key = k)

\* C21: of the calls of a fresh identity made with no time elapsing since its
\* first call, under the default configuration, the first five are allowed
\* from the burst bucket, return burstRemaining 4, 3, 2, 1, 0 and remaining
\* 10 and leave the sustained tokens at 10, and the sixth is allowed from the
\* sustained bucket and returns remaining 9
C21_BurstFirst ==
  \A k \in LimiterKeys :
    LET c == CallsOf(k) IN
      \A i \in 1..Len(c) :
        c[i].at = c[1].at =>
          /\ i <= 5 =>
               /\ c[i].ret.allowed
               /\ c[i].from = "burst"
               /\ c[i].ret.burstRemaining = 5 - i
               /\ c[i].ret.remaining = 10
               /\ c[i].entry.tokens = 10
          /\ i = 6 =>
               /\ c[i].ret.allowed
               /\ c[i].from = "main"
               /\ c[i].ret.remaining = 9

\* six calls of one identity at one instant
C21_Witness ==
  /\ Len(history) = 6
  /\ \A i \in 1..6 : history[i].key = "ip1" /\ history[i].at = 5000
  /\ history[5].ret.burstRemaining = 0
  /\ history[6].ret.remaining = 9

\* C22: of the calls of a fresh identity made before any refill is due (less
\* than 6 s after its first call), under the default configuration, the 7th
\* to the 16th are allowed from the sustained bucket, and the 17th is the
\* first that returns allowed = false
C22_SeventeenthRejected ==
  \A k \in LimiterKeys :
    LET c == CallsOf(k) IN
      \A i \in 1..Len(c) :
        c[i].at - c[1].at < RefillMs =>
          /\ (7 <= i /\ i <= 16) => c[i].ret.allowed /\ c[i].from = "main"
          /\ i < 17 => c[i].ret.allowed
          /\ i = 17 => ~c[i].ret.allowed

\* C22, as the code has it: of the calls of a fresh identity made before any
\* refill is due, under the default configuration, the 6th to the 15th are
\* allowed from the sustained bucket and return remaining 9 down to 0, and
\* the 16th is the first that returns allowed = false; every later one is
\* rejected too
C22_SixteenthRejected ==
  \A k \in LimiterKeys :
    LET c == CallsOf(k) IN
      \A i \in 1..Len(c) :
        c[i].at - c[1].at < RefillMs =>
          /\ (6 <= i /\ i <= 15) =>
               /\ c[i].ret.allowed
               /\ c[i].from = "main"
               /\ c[i].ret.remaining = 15 - i
          /\ i < 16 => c[i].ret.allowed
          /\ i >= 16 => ~c[i].ret.allowed /\ c[i].from = "none"

\* seventeen calls of one identity, begun at one instant and ended 5 s later:
\* the 15th allowed, the 16th and the 17th rejected
C22_Witness ==
  /\ Len(history) = 17
  /\ history[1].at = 0
  /\ history[10].at = 5000
  /\ history[15].ret.allowed
  /\ ~history[16].ret.allowed
  /\ ~history[17].ret.allowed

\* the calls made for the key k that were allowed, and those of them that
\* were allowed from the burst bucket
AllowedOf(k) == SelectSeq(CallsOf(k), LAMBDA h : h.ret.allowed)
BurstAllowedOf(k) == SelectSeq(CallsOf(k), LAMBDA h : h.from = "burst")

\* C23: under the default configuration, for one identity and any timing of
\* its calls, the calls allowed in any interval of T seconds number at most
\* 15 + floor(T / 6)
C23_LongRunBound ==
  \A k \in LimiterKeys :
    LET a == AllowedOf(k) IN
      \A i \in 1..Len(a) : \A j \in i..Len(a) :
        j - i + 1 <= 15 + ((a[j].at - a[i].at) \div RefillMs)

\* C24: under the default configuration, for one identity and any timing of
\* its calls, at most 5 calls are allowed from the burst bucket within any
\* window of 10 seconds
C24_BurstPerWindow ==
  \A k \in LimiterKeys :
    LET b == BurstAllowedOf(k) IN
      \A i \in 1..Len(b) : \A j \in i..Len(b) :
        b[j].at - b[i].at < LimiterBurstWindowSeconds * MsPerSecond =>
          j - i + 1 <= 5

\* C25: a call allowed from the burst bucket returns as resetIn the seconds,
\* rounded up, from now until the burst window next refills: burstWindowSeconds
\* less the time since lastBurstRefill as the burst-refill step of this call
\* left it (for the call that resets the bucket, burstWindowSeconds)
C25_BurstResetIn ==
  \A i \in 1..Len(history) :
    history[i].from = "burst" =>
      history[i].ret.resetIn =
        CeilDiv(config.burstWindowSeconds * MsPerSecond
                  - (history[i].at - history[i].entry.lastBurstRefill),
                MsPerSecond)

\* C26: under the default configuration a rejected call returns a resetIn r
\* between 1 and 6 that is the time in seconds, rounded up, until the next
\* sustained token is due, and the next call of the identity, when it is
\* made r seconds later, is allowed
C26_RetryAfterResetIn ==
  \A k \in LimiterKeys :
    LET c == CallsOf(k) IN
      \A i \in 1..Len(c) :
        ~c[i].ret.allowed =>
          /\ c[i].ret.resetIn \in 1..6
          /\ c[i].ret.resetIn =
               CeilDiv(c[i].entry.lastRefill + RefillMs - c[i].at, MsPerSecond)
          /\ (/\ i < Len(c)
              /\ c[i + 1].at = c[i].at + c[i].ret.resetIn * MsPerSecond) =>
                c[i + 1].ret.allowed

\* an identity rejected 2.5 s after its sustained bucket was last credited,
\* told to come back in 4 s, and allowed 4 s later
C26_Witness ==
  /\ Len(history) = 17
  /\ history[15].at = 0
  /\ history[16].at = 2500
  /\ ~history[16].ret.allowed
  /\ history[16].ret.resetIn = 4
  /\ history[17].at = 6500
  /\ history[17].ret.allowed

\* ==================================================== application: claims
\* C27: a request that the rate limiter rejects is answered with 429 and
\* stops there: the entries of the cache, their order of use and the hit and
\* miss counters, and the in-flight map, the queue and the active count are
\* what they were
C27_RejectedStopsAtLimiter ==
  [][(Len(reqs') = Len(reqs) + 1 /\ ~result'.allowed)
       => /\ reqs'[Len(reqs')].status = "429"
          /\ UNCHANGED <<cache, lastUse, hits, misses>>
          /\ UNCHANGED <<inFlight, queue, activeCount>>]_vars

\* a GET is rejected while the fetch of an earlier one is in flight
C27_Witness ==
  /\ Len(reqs) = 2
  /\ reqs[1].status = "pending"
  /\ reqs[2].status = "429"
  /\ reqs[2].id # 0
  /\ HasInFlight(QueueKeyOf(reqs[1].id))

\* the execute() call c gave a user
GaveUser(c) == promise[c].state = "fulfilled" /\ promise[c].val.kind = "data"

\* C28: when a GET /users/:id whose fetch failed or gave null is answered, as
\* the caller that started the fetch or as a coalesced waiter, it is answered
\* with 500 or 404 and nothing is written to the cache
C28_WrittenOnSuccessOnly ==
  [][\A j \in 1..Len(reqs) :
       (/\ reqs[j].status = "pending"
        /\ reqs'[j].status # "pending"
        /\ ~GaveUser(reqs[j].call))
       => /\ reqs'[j].status \in {"404", "500"}
          /\ UNCHANGED <<cache, lastUse>>]_vars

\* two coalesced requests for a user that does not exist are both answered
\* 404 after one fetch, and the cache has no entry for the key
C28_Witness ==
  /\ Len(reqs) = 2
  /\ reqs[1].status = "404"
  /\ reqs[2].status = "404"
  /\ fetchCalls[reqs[1].call] = 1
  /\ fetchCalls[reqs[2].call] = 0
  /\ CacheKeyOf(reqs[1].id) \notin KeySet(cache)

\* C29: once a GET /users/:id has been answered from a fetch and has stored
\* the user, every admitted GET for the same id received after that answer and
\* no more than 60 seconds later, with no DELETE /cache in between, is answered
\* from the cache, without an execute() call
C29_HitWithinTtl ==
  \A i, j \in 1..Len(reqs) :
    (/\ reqs[i].status = "200 MISS"
     /\ reqs[j].id = reqs[i].id
     /\ j > reqs[i].seen
     /\ reqs[j].status # "429"
     /\ reqs[j].start - reqs[i].doneAt <= UserCacheTtlSeconds * MsPerSecond
     /\ ~\E c \in (reqs[i].seen + 1)..(j - 1) : reqs[c].status = "200 cleared")
    => /\ reqs[j].status = "200 HIT"
       /\ reqs[j].call = 0

\* a GET is answered from the cache exactly 60 seconds after the answer that
\* stored the user
C29_Witness ==
  /\ Len(reqs) = 2
  /\ reqs[1].status = "200 MISS"
  /\ reqs[2].status = "200 HIT"
  /\ reqs[2].id = reqs[1].id
  /\ reqs[2].start - reqs[1].doneAt = UserCacheTtlSeconds * MsPerSecond

\* =================================================== seat selection: claims
\* C30: no more than MAX_SEATS seats are selected, whatever selection was
\* loaded from the storage and whichever of toggleSeat, removeSeat and
\* clearSelection were called
C30_AtMostMaxSeats == Cardinality(selectedSeatIds) <= MAX_SEATS

\* ======================================= RequestQueue: the runner, claims
\* the call c is the first execute() call for its key
FirstCall(c) == \A j \in 1..(c - 1) : callKey[j] # callKey[c]

\* the fetch of the call c has been started
Started(c) == fetchCalls[c] > 0

C32_WorkConserving == Len(queue) > 0 => activeCount = concurrency

\* a task has completed and its completion callback has run, a task started
\* by it is running and others still wait
C32_Witness ==
  /\ Idle
  /\ microtasks = <<>>
  /\ concurrency >= 1
  /\ Len(queue) > 0
  /\ \E c \in Made : task[c] = "settled"
  /\ \E c \in Made : task[c] = "running" /\ \E d \in Made : c < d /\ task[d] = "queued"

\* the tasks enqueued and not yet started, and the keys that have a queued
\* or a running fetch
Waiting == {c \in Made : task[c] = "queued"}
LiveKeys == {callKey[c] : c \in Waiting \cup Running}

\* C33: between two operations, getStatus() returns the number of tasks
\* enqueued and not yet started, the number of fetches started and not yet
\* settled, and exactly the keys that have a queued or a running fetch, as many
\* keys as the two numbers together
C33_StatusLive ==
  Quiet =>
    /\ Status.queueLength = Cardinality(Waiting)
    /\ Status.activeRequests = RunningCount
    /\ Status.inFlightKeys = LiveKeys
    /\ Cardinality(Status.inFlightKeys)
         = Status.queueLength + Status.activeRequests

\* C34: when the fetch of a task fails, no promise of the task runner is
\* rejected without a reaction attached to it
C34_NoUnhandledRejection ==
  \A c \in Made :
    /\ TaskPromise(c).state = "rejected" => TaskPromiseReactions(c) # {}
    /\ FinallyPromise(c).state = "rejected" => FinallyPromiseReactions(c) # {}

\* every execute() call made on a queue of limit 1 or more has settled
AllSettled == concurrency >= 1 => \A c \in Made : promise[c].state # "pending"

\* C35: on a queue of limit 1 or more whose started fetches all settle, every
\* execute() call settles
C35_EveryCallSettles == []<>AllSettled

\* ============================================= rate limiter: refill, claims
\* the sustained tokens credited by the calls after the i-th and up to the
\* j-th: what the bucket gained, with what was spent from it in between
MainSpent(i, j) ==
  Cardinality({n \in (i + 1)..j : history[n].from = "main"})
Credited(i, j) ==
  history[j].entry.tokens - history[i].entry.tokens + MainSpent(i, j)

\* C36: from a call at t0 that leaves the sustained bucket empty with its
\* refill time at t0, the sustained tokens credited up to a later call at
\* t0 + d, the bucket staying below capacity, are floor(d / 6 s), whatever
\* calls were made in between
C36_CreditedPerSixSeconds ==
  \A i, j \in 1..Len(history) :
    (/\ i < j
     /\ history[i].entry.tokens = 0
     /\ history[i].entry.lastRefill = history[i].at
     /\ \A n \in (i + 1)..j :
          history[i].entry.tokens + Credited(i, n)
            < LimiterMaxRequestsPerMinute)
    => Credited(i, j) = (history[j].at - history[i].at) \div RefillMs

\* this step is a consume() call that is rejected
RejectedCall == consumes' = consumes + 1 /\ ~result'.allowed

\* C37: a rejected consume() call leaves the bucket of the identity as it
\* was: tokens, burstTokens, lastRefill and lastBurstRefill
C37_RejectedLeavesBucket ==
  [][RejectedCall =>
       LET k == history'[Len(history')].key
       IN /\ k \in DOMAIN buckets
          /\ buckets'[k] = buckets[k]]_vars

\* a call is rejected some time after the last refill, and then again later
C37_Witness ==
  /\ Len(history) >= 2
  /\ ~history[Len(history)].ret.allowed
  /\ ~history[Len(history) - 1].ret.allowed
  /\ history[Len(history)].at > history[Len(history) - 1].at
  /\ history[Len(history) - 1].at > history[Len(history)].entry.lastRefill

\* the entry consume(k) would work on had cleanup() never run: the one the
\* last call of k left, or a full one made now
LastOf(k) == CallsOf(k)[Len(CallsOf(k))]
NeverReclaimed(k) ==
  IF CallsOf(k) = <<>>
    THEN [tokens |-> config.maxRequestsPerMinute,
          burstTokens |-> config.burstCapacity,
          lastRefill |-> clock,
          lastBurstRefill |-> clock]
    ELSE LastOf(k).entry

\* what a caller is told about its admission
Admission(ret) == <<ret.allowed, ret.remaining, ret.burstRemaining>>

\* C38: every consume() call returns the allowed, remaining and burstRemaining
\* values, and leaves the bucket, that it would had cleanup() never run
C38_CleanupInvisible ==
  [][consumes' = consumes + 1 =>
       \A e \in {NeverReclaimed(history'[Len(history')].key)} :
          /\ Admission(result') = Admission(ConsumeReturns(e))
          /\ buckets'[history'[Len(history')].key] = Spent(Refilled(e))]_vars

\* cleanup() has removed the entry of an identity that had emptied both
\* buckets and stayed away, and the identity can call again
C38_Witness ==
  /\ Len(history) >= 1
  /\ history[Len(history)].entry.tokens = 0
  /\ history[Len(history)].entry.burstTokens = 0
  /\ clock - history[Len(history)].entry.lastRefill > MaxAgeMs
  /\ history[Len(history)].key \notin DOMAIN buckets
  /\ consumes < MaxLimiterCalls

====
